---------------------------- MODULE Spec2Model ----------------------------
(***************************************************************************)
(* Model of Scripts/messenger_cleanup.py: the MessengerAnalyzer class      *)
(* (extract_functions, find_function_usage, find_unused_functions,         *)
(* generate_cleaned_file, backup_file) and the main() driver.              *)
(*                                                                         *)
(* A text (the content of a file, a Python str) is represented by the      *)
(* sequence of lines that str.split('\n') gives for it, which always has   *)
(* at least one element.  A line is represented by the facts the code      *)
(* reads from it: whether the function regular expression matches and the  *)
(* captured name, whether line.strip() starts with '///', whether          *)
(* line.strip() == '}', and the number of '{' and '}' characters in it.    *)
(***************************************************************************)
EXTENDS Naturals, Integers, Sequences, FiniteSets, TLC

(***************************************************************************)
(* Lines                                                                   *)
(***************************************************************************)

\* A line that the function regular expression matches, e.g. "func a() {"
\* (o = 1, c = 0), "func a()" (o = 0, c = 0), "func a() {}" (o = 1, c = 1).
FuncLine(n, o, c) == [k |-> "func", n |-> n, o |-> o, c |-> c]
\* "/// text": strip() starts with '///'.
Doc == [k |-> "doc", n |-> "", o |-> 0, c |-> 0]
\* "": the empty line.
Blank == [k |-> "blank", n |-> "", o |-> 0, c |-> 0]
\* "let x = 1": no brace, not a function, not a documentation comment.
Text == [k |-> "text", n |-> "", o |-> 0, c |-> 0]
\* "class C {" or "if x {": one '{'.
Open == [k |-> "open", n |-> "", o |-> 1, c |-> 0]
\* "}": strip() == '}'.
Close == [k |-> "close", n |-> "", o |-> 0, c |-> 1]
\* "} else {": one '}' and one '{'.
CloseOpen == [k |-> "closeopen", n |-> "", o |-> 1, c |-> 1]

\* re.match(r'\s*(?:open\s+|public\s+|private\s+|internal\s+)?func\s+(\w+)\s*\(', line)
func_match(line) == line.k = "func"
\* line.strip().startswith('///')
IsDocComment(line) == line.k = "doc"
\* line.strip() == '}'
IsClosingBrace(line) == line.k = "close"
\* line.count('{'), line.count('}')
CountOpen(line) == line.o
CountClose(line) == line.c

\* The scan window of the safety check `if j - i > 50`.
MaxScan == 50

(***************************************************************************)
(* Sequences                                                               *)
(***************************************************************************)

\* The elements of seq at the positions lo..hi that are in P, in their order.
RECURSIVE Between(_, _, _, _)
Between(seq, P, lo, hi) ==
    IF lo > hi THEN <<>>
    ELSE IF lo = hi THEN (IF lo \in P THEN <<seq[lo]>> ELSE <<>>)
    ELSE LET mid == (lo + hi) \div 2
         IN  Between(seq, P, lo, mid) \o Between(seq, P, mid + 1, hi)

\* The elements of a sequence at the positions of a set, in their order.
AtPositions(seq, P) == Between(seq, P, 1, Len(seq))

(***************************************************************************)
(* Function names and their order                                          *)
(***************************************************************************)

\* The code points of the names the model uses: "Z" = 90, "a" = 97, "b" = 98.
CodePoints(n) ==
    CASE n = "Z" -> <<90>>
      [] n = "a" -> <<97>>
      [] n = "ab" -> <<97, 98>>
      [] n = "b" -> <<98>>

\* Python's str.__lt__: lexicographic on code points.
RECURSIVE SeqLess(_, _)
SeqLess(s, t) ==
    IF t = <<>> THEN FALSE
    ELSE IF s = <<>> THEN TRUE
    ELSE IF Head(s) # Head(t) THEN Head(s) < Head(t)
    ELSE SeqLess(Tail(s), Tail(t))

StrLess(m, n) == SeqLess(CodePoints(m), CodePoints(n))

\* sorted(keys): ascending by StrLess.
RECURSIVE sorted(_)
sorted(S) ==
    IF S = {} THEN <<>>
    ELSE LET m == CHOOSE x \in S : \A y \in S \ {x} : StrLess(x, y)
         IN  <<m>> \o sorted(S \ {m})

(***************************************************************************)
(* extract_functions                                                       *)
(***************************************************************************)

\* Indices are Python's (0-based); lines[x] is lines[x + 1] here.

\* A documentation walk that also steps over empty lines.
RECURSIVE DocStart_OverBlank(_, _)
DocStart_OverBlank(lines, d) ==
    IF d > 0 /\ (IsDocComment(lines[d]) \/ lines[d] = Blank)
    THEN DocStart_OverBlank(lines, d - 1) ELSE d

\* The documentation walk: `while doc_start > 0 and
\* lines[doc_start - 1].strip().startswith('///'): doc_start -= 1`.
RECURSIVE DocStart(_, _)
DocStart(lines, d) ==
    IF d > 0 /\ IsDocComment(lines[d]) THEN DocStart(lines, d - 1) ELSE d

\* One pass of the body loop without its safety check.
ScanStep_NoCap(lines, i, st) ==
    IF st.done THEN st
    ELSE IF ~(st.j < Len(lines)) THEN [st EXCEPT !.done = TRUE]
    ELSE
      LET current_line == lines[st.j + 1]
          started1 == st.function_started \/ CountOpen(current_line) > 0
          count1 == st.brace_count + CountOpen(current_line)
          count2 == IF started1 THEN count1 - CountClose(current_line) ELSE count1
      IN  IF started1 /\ count2 = 0
          THEN [j |-> st.j, brace_count |-> count2, function_started |-> started1,
                appended |-> st.j + 1, done |-> TRUE]
          ELSE [j |-> st.j + 1, brace_count |-> count2,
                function_started |-> started1, appended |-> st.j + 1,
                done |-> FALSE]

\* One pass of the body loop `while j < len(lines)` (lines 63-83) from the
\* loop state st = (j, brace_count, function_started); `appended` is the
\* number of lines of the text up to the last one appended to func_lines
\* (the loop appends the lines i, i + 1, ... in turn), and `done` says that
\* the loop has ended (its condition failed, or it reached a break).
ScanStep(lines, i, st) ==
    IF st.done THEN st
    ELSE IF ~(st.j < Len(lines)) THEN [st EXCEPT !.done = TRUE]
    ELSE
      LET current_line == lines[st.j + 1]
          started1 == st.function_started \/ CountOpen(current_line) > 0
          count1 == st.brace_count + CountOpen(current_line)
          count2 == IF started1 THEN count1 - CountClose(current_line) ELSE count1
      IN  IF started1 /\ count2 = 0
          THEN [j |-> st.j, brace_count |-> count2, function_started |-> started1,
                appended |-> st.j + 1, done |-> TRUE]
          ELSE [j |-> st.j + 1, brace_count |-> count2,
                function_started |-> started1, appended |-> st.j + 1,
                done |-> (st.j + 1) - i > MaxScan]

\* n passes of the body loop from st, the second half after the first.
RECURSIVE ScanSteps(_, _, _, _)
ScanSteps(lines, i, st, n) ==
    IF n = 0 THEN st
    ELSE IF n = 1 THEN ScanStep(lines, i, st)
    ELSE LET half == ScanSteps(lines, i, st, n \div 2)
         IN  IF half.done THEN half
             ELSE ScanSteps(lines, i, half, n - (n \div 2))

\* The body loop, run until it ends: it ends within len(lines) - i + 1 passes.
ScanBody(lines, i) ==
    ScanSteps(lines, i,
              [j |-> i, brace_count |-> 0, function_started |-> FALSE,
               appended |-> i, done |-> FALSE],
              Len(lines) - i + 1)

\* The record built for the signature at index i: func_lines holds the
\* documentation lines doc_start .. i - 1 and the lines the body loop appended.
FunctionRecord(lines, i) ==
    LET doc_start == DocStart(lines, i)
        body == ScanBody(lines, i)
    IN  [name |-> lines[i + 1].n,
         lines |-> SubSeq(lines, doc_start + 1, body.appended),
         start_line |-> doc_start + 1,
         end_line |-> body.j + 1,
         next_i |-> body.j + 1]

\* The `else: i += 1` steps of the outer loop from index i: the index of the
\* first line from i on that the regular expression matches, len(lines) if
\* there is none.
NextMatch(lines, i) ==
    LET M == {x \in i..(Len(lines) - 1) : func_match(lines[x + 1])}
    IN  IF M = {} THEN Len(lines) ELSE CHOOSE x \in M : \A y \in M : x <= y

\* The records in the order the outer loop `while i < len(lines)` makes them.
RECURSIVE ExtractFrom(_, _)
ExtractFrom(lines, i) ==
    LET m == NextMatch(lines, i)
    IN  IF ~(m < Len(lines)) THEN <<>>
        ELSE LET r == FunctionRecord(lines, m)
             IN  <<r>> \o ExtractFrom(lines, r.next_i)

\* functions[func_name] = {...}: a later record replaces an earlier one of
\* the same name.
RECURSIVE ToDict(_)
ToDict(recs) ==
    IF recs = <<>> THEN <<>>
    ELSE LET rest == ToDict(SubSeq(recs, 1, Len(recs) - 1))
             r == recs[Len(recs)]
             rec == [name |-> r.name, lines |-> r.lines,
                     start_line |-> r.start_line, end_line |-> r.end_line]
         IN  [n \in (DOMAIN rest) \cup {r.name} |->
                 IF n = r.name THEN rec ELSE rest[n]]

extract_functions(lines) == ToDict(ExtractFrom(lines, 0))


(***************************************************************************)
(* find_function_usage, find_unused_functions                              *)
(***************************************************************************)

\* A file of the tree is [dir, name, readable, tokens]: the directory under
\* the project root, the base name, whether open()/read() succeed, and the
\* content as a sequence of occurrences [shape, n], one per line:
\*   "dot"        x.n(            "bare"     n(
\*   "messenger"  messenger.n(    "msg"      msg.n(
\*   "def"        func n(         "suffix"   xn(   (n ends a longer word)
\*   "noparen"    x.n             (no opening parenthesis follows)
Token(shape, n) == [shape |-> shape, n |-> n]
File(dir, name, readable, tokens) ==
    [dir |-> dir, name |-> name, readable |-> readable, tokens |-> tokens]

\* The four patterns, in the order of the list `patterns`.
Patterns == <<"dot_call", "word_call", "messenger_call", "msg_call">>

\* Whether a pattern, built for func_name, matches at an occurrence.
PatternMatches(pattern, func_name, tok) ==
    /\ tok.n = func_name
    /\ CASE pattern = "dot_call" -> tok.shape \in {"dot", "messenger", "msg"}
         [] pattern = "word_call" ->
                tok.shape \in {"dot", "bare", "messenger", "msg", "def"}
         [] pattern = "messenger_call" -> tok.shape = "messenger"
         [] pattern = "msg_call" -> tok.shape = "msg"

\* search_dirs: project_root / "Sources", "Tests", "Executables".
search_dirs == <<"Sources", "Tests", "Executables">>

\* The directories of the model and the search root each lies under, if any.
Under(dir, root) ==
    CASE dir = "Sources/GnustoEngine/Messenger" -> root = "Sources"
      [] dir = "Sources/GnustoEngine" -> root = "Sources"
      [] dir = "Tests/GnustoEngineTests" -> root = "Tests"
      [] dir = "Executables/Zork1" -> root = "Executables"
      [] OTHER -> FALSE

\* search_dir.rglob("*.swift")
IsSwift(name) == name \in {"StandardMessenger.swift", "Game.swift"}

\* `if swift_file.name == "StandardMessenger.swift": continue`
SkipFile(f) == f.name = "StandardMessenger.swift"

\* The matches of one pattern in one file, as "path:line" entries.
Matches(f, pattern, func_name) ==
    AtPositions([k \in 1..Len(f.tokens) |->
                    [dir |-> f.dir, name |-> f.name, line |-> k]],
                {k \in 1..Len(f.tokens) :
                    PatternMatches(pattern, func_name, f.tokens[k])})

\* `for pattern in patterns: for match in matches: usage_locations.append`
RECURSIVE FileUsage(_, _, _)
FileUsage(f, func_name, p) ==
    IF p > Len(Patterns) THEN <<>>
    ELSE Matches(f, Patterns[p], func_name)
         \o FileUsage(f, func_name, p + 1)

\* The files of one search directory, in some order (rglob's).
RECURSIVE DirUsage(_, _)
DirUsage(fs, func_name) ==
    IF fs = {} THEN <<>>
    ELSE LET f == CHOOSE x \in fs : TRUE
         IN  (IF SkipFile(f) \/ ~f.readable THEN <<>>
              ELSE FileUsage(f, func_name, 1))
             \o DirUsage(fs \ {f}, func_name)

RECURSIVE find_function_usage_from(_, _, _)
find_function_usage_from(tree, func_name, d) ==
    IF d > Len(search_dirs) THEN <<>>
    ELSE DirUsage({f \in tree : Under(f.dir, search_dirs[d]) /\ IsSwift(f.name)},
                  func_name)
         \o find_function_usage_from(tree, func_name, d + 1)

\* The target file as a file of the tree: every signature line `func n(` of
\* it is an occurrence of n that the second pattern matches.
DefTokens(lines) ==
    [x \in 1..Len(lines) |->
        IF func_match(lines[x]) THEN Token("def", lines[x].n)
        ELSE Token("text", "")]

MessengerDir == "Sources/GnustoEngine/Messenger"
MessengerFile(lines) ==
    File(MessengerDir, "StandardMessenger.swift", TRUE, DefTokens(lines))

find_function_usage(tree, func_name) ==
    find_function_usage_from(tree, func_name, 1)

find_unused_functions(fns, tree) ==
    {func_name \in DOMAIN fns : find_function_usage(tree, func_name) = <<>>}

(***************************************************************************)
(* generate_cleaned_file                                                   *)
(***************************************************************************)

\* `for i, line in enumerate(lines): if re.match(...): break;
\*  header_lines.append(line)`
header_lines(lines) == SubSeq(lines, 1, NextMatch(lines, 0))

\* `for func_name, func_data in self.functions.items(): if not remove_unused
\*  or func_name not in self.unused_functions`
functions_to_keep(fns, unused, remove) ==
    {n \in DOMAIN fns : ~remove \/ n \notin unused}

\* `if i > 0: result_lines.append(''); result_lines.extend(func_data['lines'])`
RECURSIVE FunctionBlocks(_, _, _)
FunctionBlocks(fns, names, i) ==
    IF i > Len(names) THEN <<>>
    ELSE (IF i > 1 THEN <<Blank>> ELSE <<>>) \o fns[names[i]].lines
         \o FunctionBlocks(fns, names, i + 1)

\* `for line in reversed(lines): if line.strip() == '}' ...: append '' and
\*  the line; break`
ClosingBrace(lines) ==
    LET B == {x \in 1..Len(lines) : IsClosingBrace(lines[x])}
    IN  IF B = {} THEN <<>>
        ELSE <<Blank, lines[CHOOSE x \in B : \A y \in B : y <= x]>>

\* '\n'.join(result_lines), as the lines of the joined text: the empty list
\* joins to the empty string, whose only line is the empty line.
Join(result_lines) == IF result_lines = <<>> THEN <<Blank>> ELSE result_lines

generate_cleaned_file(lines, fns, unused, remove) ==
    Join(header_lines(lines)
         \o FunctionBlocks(fns, sorted(functions_to_keep(fns, unused, remove)), 1)
         \o ClosingBrace(lines))


(***************************************************************************)
(* The external formatter                                                  *)
(***************************************************************************)

\* `swift-format --in-place`: a run that succeeds rewrites the file's white
\* space only.  Of what it does to the lines the model keeps the one effect
\* that is visible in this representation: runs of empty lines are reduced
\* to one empty line.
swift_format(lines) ==
    AtPositions(lines, {x \in 1..Len(lines) :
                          ~(x < Len(lines) /\ lines[x] = Blank
                            /\ lines[x + 1] = Blank)})

(***************************************************************************)
(* State                                                                   *)
(***************************************************************************)

VARIABLES
    messenger_exists,   \* whether StandardMessenger.swift exists
    messenger_text,     \* its content (lines)
    backup_exists,      \* whether StandardMessenger.swift.backup exists
    backup_text,        \* its content (lines)
    tree,               \* the other files under the project root
    pc,                 \* the position of main()
    remove_unused,      \* args.remove_unused
    dry_run,            \* args.dry_run
    functions,          \* analyzer.functions
    unused_functions,   \* analyzer.unused_functions
    sorted_function_names, \* the names generate_cleaned_file emitted, in order
    cleaned_content,    \* main's cleaned_content
    exit_code,          \* the process's exit status, once pc = "exit"
    error,              \* the exception that ended the run, "none" if none
    input_text,         \* the text extract_functions read in this run
    target_written,     \* this run has opened the target for writing
    backup_written,     \* this run has written to the backup file
    backup_done,        \* backup_file() has returned in this run
    format_result,      \* what the formatter step did in this run
    runs,               \* the number of the current run
    prev,               \* <<the previous run's results>>, <<>> in the first run
    layout              \* how the first run's target text was written: its
                        \* pieces (function definitions and other lines), or
                        \* <<>> when the text was not built from pieces

vars == <<messenger_exists, messenger_text, backup_exists, backup_text, tree, pc,
          remove_unused, dry_run, functions, unused_functions,
          sorted_function_names, cleaned_content, exit_code, error, input_text,
          target_written, backup_written, backup_done, format_result, runs,
          prev, layout>>

fs == <<messenger_exists, messenger_text, backup_exists, backup_text, tree>>
args == <<remove_unused, dry_run>>
analyzer == <<functions, unused_functions, sorted_function_names,
              cleaned_content, input_text>>
history == <<target_written, backup_written, backup_done, format_result, runs,
             prev, layout>>

\* The number of runs of main() the model follows.
MaxRuns == 2

(***************************************************************************)
(* main                                                                    *)
(***************************************************************************)

\* A handler that exits 1 only for the two documented failures.
ExitStatus_Documented(e) ==
    IF e \in {"file_not_found", "no_project_root"} THEN 1 ELSE 0

\* `except Exception as e: print(...); sys.exit(1)` (lines 314-316) and the
\* sys.exit(1) of line 262.
ExitStatus(e) == IF e = "none" THEN 0 ELSE 1

Exit(e) ==
    /\ pc' = "exit"
    /\ error' = e
    /\ exit_code' = ExitStatus(e)

\* Lines 238-264: the arguments are parsed and the project root is found.
\* project_root_given: --project-root was passed; has_package: some ancestor
\* of the working directory holds Package.swift.
Start ==
    /\ pc = "start"
    /\ \E project_root_given \in BOOLEAN, has_package \in BOOLEAN :
          IF project_root_given \/ has_package
          THEN pc' = "extract" /\ UNCHANGED <<error, exit_code>>
          ELSE Exit("no_project_root")
    /\ UNCHANGED <<fs, args, analyzer, history>>

\* Lines 267-272: MessengerAnalyzer(project_root), analyzer.extract_functions().
\* readable: open() and read() of the target succeed.
MainExtract ==
    /\ pc = "extract"
    /\ \E readable \in BOOLEAN :
          IF ~messenger_exists
          THEN Exit("file_not_found") /\ UNCHANGED analyzer
          ELSE IF ~readable
          THEN Exit("read_error") /\ UNCHANGED analyzer
          ELSE /\ functions' = extract_functions(messenger_text)
               /\ input_text' = messenger_text
               /\ unused_functions' = {}
               /\ pc' = "find_unused"
               /\ UNCHANGED <<sorted_function_names, cleaned_content, error,
                              exit_code>>
    /\ UNCHANGED <<fs, args, history>>

\* Lines 275-278: analyzer.find_unused_functions(), print_summary().
MainFindUnused ==
    /\ pc = "find_unused"
    /\ unused_functions' =
           find_unused_functions(functions, tree \cup {MessengerFile(messenger_text)})
    /\ pc' = "generate"
    /\ UNCHANGED <<fs, args, functions, sorted_function_names, cleaned_content,
                   input_text, exit_code, error, history>>

\* Line 282: analyzer.generate_cleaned_file(remove_unused=args.remove_unused),
\* with its `if not self.functions: self.extract_functions()` and its own
\* open() and read() of the target (lines 171-172), which can raise.
MainGenerate ==
    /\ pc = "generate"
    /\ \E readable \in BOOLEAN :
          IF ~readable
          THEN Exit("read_error") /\ UNCHANGED analyzer
          ELSE LET fns == IF DOMAIN functions = {}
                          THEN extract_functions(messenger_text) ELSE functions
               IN  /\ functions' = fns
                   /\ sorted_function_names' =
                          sorted(functions_to_keep(fns, unused_functions,
                                                   remove_unused))
                   /\ cleaned_content' =
                          generate_cleaned_file(messenger_text, fns,
                                                unused_functions, remove_unused)
                   /\ pc' = IF dry_run THEN "dry_run" ELSE "backup"
                   /\ UNCHANGED <<unused_functions, input_text, exit_code,
                                  error>>
    /\ UNCHANGED <<fs, args, history>>

\* Lines 284-291: the dry run reports and main returns.
DryRun ==
    /\ pc = "dry_run"
    /\ Exit("none")
    /\ UNCHANGED <<fs, args, analyzer, history>>

\* A backup step that reports a failed copy and goes on to the write.
MainBackup_Swallow ==
    /\ pc = "backup"
    /\ \E outcome \in {"ok", "raises_before_write", "raises_after_write"} :
          /\ IF outcome = "raises_before_write"
             THEN UNCHANGED <<backup_exists, backup_text, backup_written>>
             ELSE /\ backup_exists' = TRUE
                  /\ backup_text' = messenger_text
                  /\ backup_written' = TRUE
          /\ IF outcome = "ok"
             THEN backup_done' = TRUE
             ELSE UNCHANGED backup_done
          /\ pc' = "write"
          /\ UNCHANGED <<error, exit_code>>
    /\ UNCHANGED <<messenger_exists, messenger_text, tree, args, analyzer,
                   target_written, format_result, runs, prev, layout>>

\* Lines 294-295 and 231-236: backup_file(), shutil.copy2(target, backup).
\* copy2 copies the data and then the metadata; it can raise before the
\* backup file is opened, or after data has been written to it.
MainBackup ==
    /\ pc = "backup"
    /\ \E outcome \in {"ok", "raises_before_write", "raises_after_write"} :
          /\ IF outcome = "raises_before_write"
             THEN UNCHANGED <<backup_exists, backup_text, backup_written>>
             ELSE /\ backup_exists' = TRUE
                  /\ backup_text' = messenger_text
                  /\ backup_written' = TRUE
          /\ IF outcome = "ok"
             THEN /\ backup_done' = TRUE
                  /\ pc' = "write"
                  /\ UNCHANGED <<error, exit_code>>
             ELSE Exit("backup_failed") /\ UNCHANGED backup_done
    /\ UNCHANGED <<messenger_exists, messenger_text, tree, args, analyzer,
                   target_written, format_result, runs, prev, layout>>

\* Lines 298-304: open(target, 'w') and f.write(cleaned_content).  open can
\* raise (the file is left as it was); open truncates the file, and write
\* can raise after that (the file is left with part of the text).
MainWrite ==
    /\ pc = "write"
    /\ \E outcome \in {"ok", "open_raises", "write_raises"} :
          /\ IF outcome = "open_raises"
             THEN UNCHANGED <<messenger_text, target_written>>
             ELSE /\ target_written' = TRUE
                  /\ IF outcome = "ok"
                     THEN messenger_text' = cleaned_content
                     ELSE \E k \in 0..(Len(cleaned_content) - 1) :
                             messenger_text' = Join(SubSeq(cleaned_content, 1, k))
          /\ IF outcome = "ok"
             THEN pc' = "format" /\ UNCHANGED <<error, exit_code>>
             ELSE Exit("write_failed")
    /\ UNCHANGED <<messenger_exists, backup_exists, backup_text, tree, args,
                   analyzer, backup_written, backup_done, format_result, runs,
                   prev, layout>>

\* Lines 306-312: subprocess.run(['swift-format', '--in-place', target]).
\* CalledProcessError and FileNotFoundError are caught here; any other
\* exception (a PermissionError on the executable) reaches line 314.
MainFormat ==
    /\ pc = "format"
    /\ \E outcome \in {"formatted", "unavailable", "other_exception"} :
          /\ format_result' = outcome
          /\ messenger_text' = IF outcome = "formatted"
                               THEN swift_format(messenger_text)
                               ELSE messenger_text
          /\ Exit(IF outcome = "other_exception" THEN "format_error" ELSE "none")
    /\ UNCHANGED <<messenger_exists, backup_exists, backup_text, tree, args,
                   analyzer, target_written, backup_written, backup_done, runs,
                   prev, layout>>

\* The script is run again on the file a run that ended well has written.
Rerun ==
    /\ pc = "exit"
    /\ exit_code = 0
    /\ target_written
    /\ runs < MaxRuns
    /\ runs' = runs + 1
    /\ prev' = <<[functions |-> functions,
                  unused_functions |-> unused_functions,
                  sorted_function_names |-> sorted_function_names,
                  cleaned_content |-> cleaned_content,
                  input_text |-> input_text,
                  remove_unused |-> remove_unused]>>
    /\ pc' = "start"
    /\ error' = "none"
    /\ exit_code' = 0
    /\ target_written' = FALSE
    /\ backup_written' = FALSE
    /\ backup_done' = FALSE
    /\ format_result' = "none"
    /\ functions' = <<>>
    /\ unused_functions' = {}
    /\ sorted_function_names' = <<>>
    /\ cleaned_content' = <<>>
    /\ input_text' = <<>>
    /\ UNCHANGED <<fs, args, layout>>

Next ==
    \/ Start
    \/ MainExtract
    \/ MainFindUnused
    \/ MainGenerate
    \/ DryRun
    \/ MainBackup
    \/ MainWrite
    \/ MainFormat
    \/ Rerun

\* The state before main() runs, but for the target file: for a set of trees
\* and the values of the two flags.
InitRun(trees, removes, dries) ==
    /\ backup_exists = FALSE
    /\ backup_text = <<Blank>>
    /\ tree \in trees
    /\ pc = "start"
    /\ remove_unused \in removes
    /\ dry_run \in dries
    /\ functions = <<>>
    /\ unused_functions = {}
    /\ sorted_function_names = <<>>
    /\ cleaned_content = <<>>
    /\ exit_code = 0
    /\ error = "none"
    /\ input_text = <<>>
    /\ target_written = FALSE
    /\ backup_written = FALSE
    /\ backup_done = FALSE
    /\ format_result = "none"
    /\ runs = 1
    /\ prev = <<>>

\* The target file holds one of a set of texts, or is missing.
InitWith(texts, trees, removes, dries) ==
    /\ \/ messenger_exists = TRUE /\ messenger_text \in texts
       \/ messenger_exists = FALSE /\ messenger_text = <<Blank>>
    /\ layout = <<>>
    /\ InitRun(trees, removes, dries)

(***************************************************************************)
(* Inputs                                                                  *)
(***************************************************************************)

\* All sequences over S of length 1..n.
SeqsUpTo(S, n) == UNION {[1..m -> S] : m \in 1..n}

RECURSIVE Flatten(_)
Flatten(pieces) ==
    IF pieces = <<>> THEN <<>> ELSE Head(pieces) \o Flatten(Tail(pieces))

\* n copies of a line.
Repeat(line, n) == [x \in 1..n |-> line]

\* The trees of the model: no other file; a test that calls msg.a(; a file
\* that only mentions a without a call and calls a longer name; a second
\* file named StandardMessenger.swift (a test double) that calls
\* messenger.a( and Z(; an unreadable file and a Markdown file that call a.
Trees ==
    { {},
      {File("Tests/GnustoEngineTests", "Game.swift", TRUE,
            <<Token("text", ""), Token("msg", "a")>>)},
      {File("Sources/GnustoEngine", "Game.swift", TRUE,
            <<Token("noparen", "a"), Token("suffix", "a"), Token("bare", "Z")>>)},
      {File("Tests/GnustoEngineTests", "StandardMessenger.swift", TRUE,
            <<Token("messenger", "a"), Token("bare", "Z")>>)},
      {File("Executables/Zork1", "Game.swift", FALSE, <<Token("dot", "a")>>),
       File("Docs", "README.md", TRUE, <<Token("bare", "a")>>)} }

\* The lines of the small target texts.
MainLines ==
    {FuncLine("a", 1, 1), FuncLine("Z", 0, 0), FuncLine("Z", 1, 0),
     Doc, Blank, Text, Close}

\* The longest small target text.
MaxLines == 3

Init == InitWith(SeqsUpTo(MainLines, MaxLines), Trees, BOOLEAN, BOOLEAN)

Spec == Init /\ [][Next]_vars


\* Long target texts: up to MaxLongPieces pieces, each a single line or a
\* run of plain lines about as long as the scan window.
LongPieces ==
    {<<FuncLine("a", 1, 0)>>, <<FuncLine("a", 0, 0)>>, <<FuncLine("Z", 1, 1)>>,
     <<Close>>, Repeat(Text, MaxScan - 1), Repeat(Text, MaxScan)}

MaxLongPieces == 3

LongTexts == {Flatten(ps) : ps \in SeqsUpTo(LongPieces, MaxLongPieces)}

InitLong == InitWith(LongTexts, {{}}, {FALSE}, BOOLEAN)

SpecLong == InitLong /\ [][Next]_vars

\* Target texts built from pieces: a piece is a function definition (its
\* lines from the signature line to its closing brace) or a single other
\* line.  The definitions: a one-line function; a function of 49 lines; a
\* function whose '{' stands on the line after the signature and whose body
\* holds a nested block and a `} else {`; a three-line function; a function
\* whose signature line holds a closure as a default argument,
\* `func b(f: () -> Int = { 1 }) -> Int`, and whose '{' stands on the next
\* line.
Def(n, ls) == [def |-> TRUE, name |-> n, lines |-> ls]
Other(l) == [def |-> FALSE, name |-> "", lines |-> <<l>>]

Pieces ==
    {Def("a", <<FuncLine("a", 1, 1)>>),
     Def("ab", <<FuncLine("ab", 1, 0)>> \o Repeat(Text, MaxScan - 3) \o <<Close>>),
     Def("Z", <<FuncLine("Z", 0, 0), Open, Open, Text, CloseOpen, Close, Close>>),
     Def("b", <<FuncLine("b", 1, 0), Text, Close>>),
     Def("b", <<FuncLine("b", 1, 1), Open, Text, Close>>),
     Other(Doc), Other(Blank), Other(Text), Other(Open), Other(Close)}

\* The most pieces of a text.
MaxPieces == 3

\* The layouts in which no two definitions have the same name.
Layouts ==
    {ps \in SeqsUpTo(Pieces, MaxPieces) :
        \A x \in DOMAIN ps, y \in DOMAIN ps :
            (x # y /\ ps[x].def /\ ps[y].def) => ps[x].name # ps[y].name}

LayoutText(ps) == Flatten([x \in DOMAIN ps |-> ps[x].lines])

InitPieces ==
    /\ \/ /\ messenger_exists = TRUE
          /\ layout \in Layouts
          /\ messenger_text = LayoutText(layout)
       \/ /\ messenger_exists = FALSE
          /\ layout = <<>>
          /\ messenger_text = <<Blank>>
    /\ InitRun({{}}, {FALSE}, BOOLEAN)

SpecPieces == InitPieces /\ [][Next]_vars

(***************************************************************************)
(* Properties                                                              *)
(***************************************************************************)

\* extract_functions has run in the current run of main.
Extracted == input_text # <<>>
\* find_unused_functions has run in the current run of main.
Scanned == Extracted /\ pc \notin {"find_unused"}
\* generate_cleaned_file has run in the current run of main.
Generated == cleaned_content # <<>>

\* The number of documentation lines a record starts with.
RECURSIVE LeadingDocs(_)
LeadingDocs(ls) ==
    IF ls # <<>> /\ IsDocComment(Head(ls)) THEN 1 + LeadingDocs(Tail(ls)) ELSE 0

\* The 1-based number of a record's signature line in the text.
SignatureLine(r) == r.start_line + LeadingDocs(r.lines)

\* The number of consecutive '///' lines that end right before line s.
DocsBefore(text, s) ==
    CHOOSE k \in 0..(s - 1) :
        /\ \A m \in 1..k : text[s - m].k = "doc"
        /\ (k < s - 1 => text[s - k - 1].k # "doc")

\* C4: a record starts with exactly the K consecutive '///' lines that stand
\* right before its signature line (none when the line before the signature
\* is blank or is no '///' line), and start_line is the 1-based number of
\* the first of them.
C4_DocAttachment ==
    Extracted =>
      \A n \in DOMAIN functions :
        LET r == functions[n]
            s == SignatureLine(r)
            K == DocsBefore(input_text, s)
        IN  /\ s \in 1..Len(input_text)
            /\ input_text[s].k = "func" /\ input_text[s].n = n
            /\ r.start_line = s - K
            /\ Len(r.lines) > K
            /\ SubSeq(r.lines, 1, K) = SubSeq(input_text, s - K, s - 1)
            /\ r.lines[K + 1] = input_text[s]
            /\ (s > 1 /\ input_text[s - 1].k \in {"blank", "text", "close"}
                  => r.lines[1] = input_text[s])

\* Two documentation lines are attached to a record, and another record of
\* the same text has none because a blank line stands before its signature.
C4_Witness ==
    /\ Extracted
    /\ \E n \in DOMAIN functions :
          /\ DocsBefore(input_text, SignatureLine(functions[n])) = 2
          /\ functions[n].start_line = SignatureLine(functions[n]) - 2


\* The names of a sequence are in ascending order of their code points.
Ascending(names) ==
    \A x \in 1..Len(names), y \in 1..Len(names) :
        x < y => StrLess(names[x], names[y])

\* The current run is the second one, and it read the text that the first
\* run's generate_cleaned_file returned.
SecondPass ==
    /\ prev # <<>>
    /\ Extracted
    /\ input_text = prev[1].cleaned_content

\* C1: when the text generated with remove_unused on is extracted again, no
\* record has a name of the unused set, and every other record of the first
\* extraction is there with the same lines.
C1_Original ==
    (SecondPass /\ prev[1].remove_unused) =>
      /\ \A n \in DOMAIN functions : n \notin prev[1].unused_functions
      /\ \A n \in (DOMAIN prev[1].functions) \ prev[1].unused_functions :
            /\ n \in DOMAIN functions
            /\ functions[n].lines = prev[1].functions[n].lines

\* C3: a name is in the unused set exactly when no readable .swift file under
\* a search root, other than the target file itself, holds an occurrence of
\* it in one of the four shapes.  (`tree` holds the files other than the
\* target file.)
C3_Original ==
    Scanned =>
      \A n \in DOMAIN functions :
        n \in unused_functions <=>
          ~ \E f \in tree :
              /\ \E root \in {"Sources", "Tests", "Executables"} : Under(f.dir, root)
              /\ f.name \in {"StandardMessenger.swift", "Game.swift"}
              /\ f.readable
              /\ \E x \in 1..Len(f.tokens) :
                    /\ f.tokens[x].n = n
                    /\ f.tokens[x].shape \in {"dot", "bare", "messenger", "msg"}

\* C5: two runs in sequence with remove_unused off emit the same sequence of
\* function names, each in ascending order.
C5_Original ==
    (SecondPass /\ Generated /\ ~remove_unused /\ ~prev[1].remove_unused) =>
      /\ sorted_function_names = prev[1].sorted_function_names
      /\ Ascending(sorted_function_names)
      /\ Ascending(prev[1].sorted_function_names)

\* C6 as stated: the target is written only in a run that is no dry run and
\* only after backup_file() has returned; in a dry run, and in a run whose
\* backup fails, neither the target nor the backup file is written.
C6_Original ==
    /\ target_written => (~dry_run /\ backup_done)
    /\ (dry_run \/ error = "backup_failed") =>
          (~target_written /\ ~backup_written)

\* C6, amended: the target is written only in a run that is no dry run and
\* only after backup_file() has returned, the backup file then holding the
\* text the run read; until then the target is as the run read it; a dry run
\* writes neither file; a run whose backup fails does not write the target.
C6_BackupBeforeWrite ==
    /\ target_written =>
          /\ ~dry_run /\ backup_done
          /\ backup_exists /\ backup_text = input_text
    /\ (Extracted /\ ~target_written) => messenger_text = input_text
    /\ dry_run => (~target_written /\ ~backup_written)
    /\ error = "backup_failed" => ~target_written
    /\ backup_done => backup_written

\* A live run has replaced the target's text after making the backup.
C6_Witness ==
    /\ target_written /\ backup_done /\ pc = "exit"
    /\ messenger_text # input_text
    /\ backup_text = input_text

\* C7 as stated: the exit status is non-zero exactly when the target file is
\* not found or the project root is not detected.
C7_Original ==
    pc = "exit" =>
      (exit_code # 0 <=> error \in {"file_not_found", "no_project_root"})

\* C7, amended: the exit status is 1 exactly when the project root is not
\* detected, the target file is not found, or reading the target, making the
\* backup, writing the target or running the formatter raises an exception
\* that the formatter step does not catch; it is 0 otherwise, in particular
\* after a dry run, when no function is found, when none is unused, when a
\* scanned file is unreadable and when the formatter is unavailable.
C7_ExitStatus ==
    pc = "exit" =>
      /\ exit_code \in {0, 1}
      /\ exit_code = 1 <=>
            \/ error = "no_project_root"
            \/ error = "file_not_found"
            \/ error = "read_error"
            \/ error = "backup_failed"
            \/ error = "write_failed"
            \/ error = "format_error"
      /\ (error = "file_not_found") <=> (~messenger_exists /\ input_text = <<>>
                                          /\ exit_code = 1
                                          /\ error # "no_project_root")
      /\ format_result \in {"formatted", "unavailable"} => exit_code = 0
      /\ (dry_run /\ Generated) => exit_code = 0
      /\ (Generated /\ error = "none") => exit_code = 0

\* A run whose backup fails ends with status 1 though the target file and the
\* project root were found.
C7_Witness ==
    /\ pc = "exit" /\ exit_code = 1 /\ error = "backup_failed"
    /\ messenger_exists /\ Generated

\* C9: end_line is the 1-based number of the last line of the record, and
\* the scan resumes at the line right after it.
C9_Original ==
    Extracted =>
      /\ \A n \in DOMAIN functions :
            functions[n].end_line
              = functions[n].start_line + Len(functions[n].lines) - 1
      /\ LET recs == ExtractFrom(input_text, 0)
         IN  \A x \in 1..Len(recs) :
               recs[x].next_i = (recs[x].start_line - 1) + Len(recs[x].lines)

\* C10: the header and the kept records are disjoint ranges of the text
\* read: every kept record starts after the last header line.
C10_Original ==
    Generated =>
      \A x \in 1..Len(sorted_function_names) :
        functions[sorted_function_names[x]].start_line
          > Len(header_lines(input_text))


\* The brace depth the body loop has after the first k lines of ls, and
\* whether it has seen a '{' by then.
DepthAfter(ls, k) ==
    LET O == {m \in 1..k : ls[m].o > 0}
        first == CHOOSE m \in O : \A y \in O : m <= y
        opens == Cardinality({m \in first..k : ls[m].o >= 1})
                 + Cardinality({m \in first..k : ls[m].o >= 2})
        closes == Cardinality({m \in first..k : ls[m].c >= 1})
                  + Cardinality({m \in first..k : ls[m].c >= 2})
    IN  IF O = {} THEN [started |-> FALSE, depth |-> 0]
        ELSE [started |-> TRUE, depth |-> opens - closes]

BalancedAt(ls, k) ==
    LET d == DepthAfter(ls, k) IN d.started /\ d.depth = 0

\* The lines of a record from its signature line on.
FromSignature(r) == SubSeq(r.lines, LeadingDocs(r.lines) + 1, Len(r.lines))

\* C8 as stated: a record has at most 50 lines from its signature line on.
C8_Original ==
    Extracted =>
      \A n \in DOMAIN functions : Len(FromSignature(functions[n])) <= 50

\* C8, amended: a record has at most 51 lines from its signature line on;
\* it ends at the first line where the brace depth is back at zero, if that
\* is one of the first 51 lines from the signature, and otherwise at line 51
\* from the signature, or at the last line of the text when the text ends
\* before that.
C8_ScanWindow ==
    Extracted =>
      \A n \in DOMAIN functions :
        LET r == functions[n]
            s == SignatureLine(r)
            rest == SubSeq(input_text, s, Len(input_text))
            L == Len(FromSignature(r))
        IN  /\ 1 <= L /\ L <= MaxScan + 1
            /\ FromSignature(r) = SubSeq(rest, 1, L)
            /\ \A k \in 1..(L - 1) : ~BalancedAt(rest, k)
            /\ \/ BalancedAt(rest, L)
               \/ L = MaxScan + 1
               \/ L = Len(rest)

\* A record was cut at line 51 from its signature with its braces open and
\* more lines following.
C8_Witness ==
    /\ Extracted
    /\ \E n \in DOMAIN functions :
          LET r == functions[n]
              rest == SubSeq(input_text, SignatureLine(r), Len(input_text))
          IN  /\ Len(FromSignature(r)) = 51
              /\ ~BalancedAt(rest, 51)
              /\ Len(rest) > 51


\* The 1-based number of the first line of piece p of a layout.
RECURSIVE PieceStart(_, _)
PieceStart(ps, p) ==
    IF p = 1 THEN 1 ELSE PieceStart(ps, p - 1) + Len(ps[p - 1].lines)

PieceEnd(ps, p) == PieceStart(ps, p) + Len(ps[p].lines) - 1

\* C2: of a text that holds N function definitions with distinct names, each
\* with balanced braces and shorter than 50 lines, extract_functions returns
\* N records; the record of a definition runs from the definition's
\* signature line, or from the documentation lines attached before it, to
\* the definition's closing line, and holds no line of another definition.
C2_Original ==
    LET defs == {p \in DOMAIN layout : layout[p].def}
    IN  (/\ Extracted /\ layout # <<>> /\ input_text = LayoutText(layout)
         /\ \A p \in defs : Len(layout[p].lines) < 50) =>
          /\ Cardinality(DOMAIN functions) = Cardinality(defs)
          /\ \A p \in defs :
               /\ layout[p].name \in DOMAIN functions
               /\ LET r == functions[layout[p].name]
                      last == r.start_line + Len(r.lines) - 1
                  IN  /\ SignatureLine(r) = PieceStart(layout, p)
                      /\ last = PieceEnd(layout, p)
                      /\ r.lines = SubSeq(input_text, r.start_line, last)
                      /\ \A x \in r.start_line..(PieceStart(layout, p) - 1) :
                            input_text[x].k = "doc"
                      /\ \A q \in defs \ {p} :
                            \/ PieceEnd(layout, q) < r.start_line
                            \/ PieceStart(layout, q) > last

=============================================================================
